---- MODULE Spec2Model ----
(***************************************************************************)
(* Model of the RWA asset backend (handlers/asset_handler.go,              *)
(* models/asset.go): the assets table, the wall clock, and one action per  *)
(* HTTP handler.  Spec runs the handlers one request at a time; SpecConc   *)
(* additionally interleaves the store read and the store write of the two  *)
(* PATCH handlers.                                                         *)
(*                                                                         *)
(* float64 values are modelled as exact decimals [m, e] = m / 10^e         *)
(* (normalised), quotients as exact fractions [num, den]; rounding is not  *)
(* modelled.  JSON text fields are strings; the string-encoded numbers of  *)
(* the mint payload are sequences of characters so that strconv parsing is *)
(* computed digit by digit.                                                *)
(***************************************************************************)
EXTENDS Integers, Sequences, FiniteSets, TLC

\* ---- bounds ----
MaxClock == 1          \* the clock takes the readings 0..MaxClock
TicksPerSecond == 1    \* clock readings per Unix second

VARIABLES table, clock, resp, inflight

vars == <<table, clock, resp, inflight>>

\* ---- Go values ----

\* time.Time: the zero value, or a clock reading
ZeroTime == [zero |-> TRUE, t |-> 0]
TimeAt(t) == [zero |-> FALSE, t |-> t]

\* time.Time.Unix(): whole seconds
Unix(t) == t \div TicksPerSecond

\* a Go slice: nil, or a (possibly empty) sequence of items
NilSlice == [isNil |-> TRUE, items |-> <<>>]
Slice(s) == [isNil |-> FALSE, items |-> s]

\* append(slice, x): a nil slice becomes a non-nil one
GoAppend(sl, x) == [isNil |-> FALSE, items |-> Append(sl.items, x)]

\* ---- decimals standing for float64 ----
RECURSIVE Pow10(_)
Pow10(n) == IF n = 0 THEN 1 ELSE 10 * Pow10(n - 1)

RECURSIVE Norm(_, _)
Norm(m, e) ==
    IF m = 0 THEN [m |-> 0, e |-> 0]
    ELSE IF e > 0 /\ m % 10 = 0 THEN Norm(m \div 10, e - 1)
    ELSE [m |-> m, e |-> e]

\* float64(i)
FromInt(i) == [m |-> i, e |-> 0]
\* a * b
DecMul(a, b) == Norm(a.m * b.m, a.e + b.e)
\* a < b
DecLess(a, b) == a.m * Pow10(b.e) < b.m * Pow10(a.e)

\* ---- strconv ----
Digits == <<"0", "1", "2", "3", "4", "5", "6", "7", "8", "9">>
IsDigit(c) == \E i \in 1..10 : Digits[i] = c
DigitVal(c) == (CHOOSE i \in 1..10 : Digits[i] = c) - 1

RECURSIVE DigitsValue(_)
DigitsValue(s) ==
    IF Len(s) = 0 THEN 0
    ELSE 10 * DigitsValue(SubSeq(s, 1, Len(s) - 1)) + DigitVal(s[Len(s)])

AllDigits(s) == \A i \in 1..Len(s) : IsDigit(s[i])
HasSign(s) == Len(s) > 0 /\ s[1] \in {"+", "-"}
Unsigned(s) == IF HasSign(s) THEN Tail(s) ELSE s
Negative(s) == Len(s) > 0 /\ s[1] = "-"

\* strconv.ParseInt(s, 10, 64): optional sign, then one or more digits
ParseInt(s) ==
    LET body == Unsigned(s) IN
    IF Len(body) = 0 \/ ~AllDigits(body)
    THEN [err |-> TRUE, val |-> 0]
    ELSE [err |-> FALSE,
          val |-> IF Negative(s) THEN 0 - DigitsValue(body) ELSE DigitsValue(body)]

\* strconv.ParseFloat(s, 64) on decimal text: optional sign, digits with at
\* most one point, at least one digit.  (Exponents, hex floats, inf and nan
\* need characters outside the alphabet of the modelled inputs.)
ParseFloat(s) ==
    LET body == Unsigned(s)
        dots == {i \in 1..Len(body) : body[i] = "."}
        dot  == IF dots = {} THEN Len(body) + 1 ELSE CHOOSE i \in dots : TRUE
        ip   == SubSeq(body, 1, dot - 1)
        fp   == SubSeq(body, dot + 1, Len(body))
        mant == DigitsValue(ip \o fp)
    IN
    IF Cardinality(dots) > 1 \/ Len(ip \o fp) = 0 \/ ~AllDigits(ip \o fp)
    THEN [err |-> TRUE, val |-> FromInt(0)]
    ELSE [err |-> FALSE,
          val |-> Norm(IF Negative(s) THEN 0 - mant ELSE mant, Len(fp))]

\* fmt.Sprintf("asset_%d", sec)
AssetID(sec) == "asset_" \o ToString(sec)

\* ---- models.Asset ----

\* the columns of the assets table
StoredFields ==
    {"id", "name", "symbol", "type", "institution", "institutionAddress",
     "description", "totalSupply", "stakedAmount", "priceUsd", "annualYield",
     "createdAt", "updatedAt", "blockchain", "contractAddress", "txHash",
     "documentsURI", "imageURI"}

\* the stored part of an Asset struct (Documents and TopStakers are gorm:"-")
ToRow(a) == [f \in StoredFields |-> a[f]]

\* a row scanned into a fresh Asset struct: the computed slices start nil
FromRow(r) == r @@ [documents |-> NilSlice, topStakers |-> NilSlice]

\* time.Time.Format("2006-01-02"): the calendar day of the reading
FormatDate(tm) == [day |-> Unix(tm.t) \div 86400]

AfterFindDocuments(a) ==
    IF a.documentsURI # ""
    THEN Slice(<<[name |-> "Supporting Documents",
                  date |-> FormatDate(a.createdAt),
                  url  |-> a.documentsURI]>>)
    ELSE Slice(<<>>)

AfterFindTopStakers(a) ==
    IF a.stakedAmount > 0
    THEN Slice(<<[address |-> "0x1234...5678",
                  amount |-> DecMul(FromInt(a.stakedAmount), [m |-> 4, e |-> 1]),
                  percentage |-> FromInt(40)],
                 [address |-> "0xabcd...efgh",
                  amount |-> DecMul(FromInt(a.stakedAmount), [m |-> 35, e |-> 2]),
                  percentage |-> FromInt(35)],
                 [address |-> "0x9876...5432",
                  amount |-> DecMul(FromInt(a.stakedAmount), [m |-> 25, e |-> 2]),
                  percentage |-> FromInt(25)]>>)
    ELSE Slice(<<>>)

\* Asset.AfterFind hook: fills the computed slices of a struct read by a query
AfterFind(a) ==
    [a EXCEPT !.documents = AfterFindDocuments(a),
              !.topStakers = AfterFindTopStakers(a)]

\* stakingProgress: 0 unless totalSupply > 0, else staked / total * 100
StakingProgress(a) ==
    IF a.totalSupply > 0
    THEN [num |-> a.stakedAmount * 100, den |-> a.totalSupply]
    ELSE [num |-> 0, den |-> 1]

IsContractActive(a) == a.contractAddress # "" /\ a.contractAddress # "pending"

\* Asset.ToAssetResponse
ToAssetResponse(a) ==
    LET avail0 == a.totalSupply - a.stakedAmount
        availableSupply == IF avail0 < 0 THEN 0 ELSE avail0
        marketCap == DecMul(FromInt(a.totalSupply), a.priceUsd)
        stakedValue == DecMul(FromInt(a.stakedAmount), a.priceUsd)
        availableValue == DecMul(FromInt(availableSupply), a.priceUsd)
        minInvestment == a.priceUsd
        maxInvestment == IF DecLess(availableValue, minInvestment)
                         THEN minInvestment ELSE availableValue
    IN [asset |-> a,
        availableSupply |-> availableSupply,
        marketCap |-> marketCap,
        minInvestment |-> minInvestment,
        maxInvestment |-> maxInvestment,
        stakingProgress |-> StakingProgress(a),
        isContractActive |-> IsContractActive(a),
        totalValue |-> marketCap,
        stakedValue |-> stakedValue,
        availableValue |-> availableValue]

\* ---- the store (gorm over the assets table) ----

HasID(tbl, id) == \E i \in 1..Len(tbl) : tbl[i].id = id
IndexOf(tbl, id) == CHOOSE i \in 1..Len(tbl) : tbl[i].id = id
RowOf(tbl, id) == tbl[IndexOf(tbl, id)]

\* db.First(&asset, "id = ?", id): ErrRecordNotFound, or the row with the
\* AfterFind hook applied
First(tbl, id) ==
    IF HasID(tbl, id)
    THEN [err |-> FALSE, asset |-> AfterFind(FromRow(RowOf(tbl, id)))]
    ELSE [err |-> TRUE, asset |-> FromRow([f \in StoredFields |-> ""])]

\* column defaults of the schema, used by Create for zero-valued fields
DefaultType == "Real Estate"
DefaultBlockchain == "Lisk"
DefaultAnnualYield == [m |-> 85, e |-> 1]

WithDefaults(a) ==
    [a EXCEPT !.type = IF @ = "" THEN DefaultType ELSE @,
              !.blockchain = IF @ = "" THEN DefaultBlockchain ELSE @,
              !.annualYield = IF @ = FromInt(0) THEN DefaultAnnualYield ELSE @]

\* db.Create(&asset): autoCreateTime/autoUpdateTime fill zero timestamps,
\* zero-valued fields with a default tag take the column default, and the
\* primary key must be new (UNIQUE constraint failure otherwise)
Create(tbl, a, now) ==
    LET b == [WithDefaults(a) EXCEPT
                 !.createdAt = IF @.zero THEN TimeAt(now) ELSE @,
                 !.updatedAt = IF @.zero THEN TimeAt(now) ELSE @]
    IN IF HasID(tbl, a.id)
       THEN [err |-> TRUE, table |-> tbl, asset |-> a]
       ELSE [err |-> FALSE, table |-> Append(tbl, ToRow(b)), asset |-> b]

\* variant: the update carries no primary-key condition, so every row takes
\* the columns of the struct
Save_NoWhere(tbl, a, now) ==
    LET b == [a EXCEPT !.updatedAt = TimeAt(now)]
    IN [err |-> FALSE,
        table |-> [i \in 1..Len(tbl) |-> ToRow(b)],
        asset |-> b]

\* db.Save(&asset): writes every column of the struct to the row with its
\* primary key, with updated_at set to now; inserts when no row has the key
Save(tbl, a, now) ==
    LET b == [a EXCEPT !.updatedAt = TimeAt(now)]
    IN IF HasID(tbl, a.id)
       THEN [err |-> FALSE,
             table |-> [tbl EXCEPT ![IndexOf(tbl, a.id)] = ToRow(b)],
             asset |-> b]
       ELSE [err |-> FALSE, table |-> Append(tbl, ToRow(b)), asset |-> b]

\* permutations of the rows in created_at DESC order (ties in any order)
OrderedByCreatedAtDesc(tbl) ==
    LET n == Len(tbl)
        perms == {p \in [1..n -> 1..n] : \A i, j \in 1..n : i # j => p[i] # p[j]}
    IN {[i \in 1..n |-> tbl[p[i]]] : p \in
          {q \in perms : \A i \in 1..n : \A j \in 1..n :
               i < j => tbl[q[i]].createdAt.t >= tbl[q[j]].createdAt.t}}

\* ---- utils: the response envelope ----
Null == [kind |-> "null"]

SuccessResponse(op, status, message, data) ==
    [op |-> op, status |-> status, success |-> TRUE, message |-> message,
     data |-> data]

ErrorResponse(op, status, message) ==
    [op |-> op, status |-> status, success |-> FALSE, message |-> message,
     data |-> Null]

\* ---- handlers ----

\* c.BindJSON(&req) for MintRequest: the binding:"required" fields are non-empty
BindMint(req) ==
    /\ req.name # ""
    /\ req.symbol # ""
    /\ req.institutionName # ""
    /\ req.totalSupply # <<>>
    /\ req.expectedYield # <<>>

\* pricePerRWA := 1.0
DefaultPrice == FromInt(1)

\* the optional price: the default when the field is empty, else its parse
MintPrice(req) ==
    IF req.pricePerRWA # <<>>
    THEN ParseFloat(req.pricePerRWA)
    ELSE [err |-> FALSE, val |-> DefaultPrice]

\* variant: the supplied contract address is stored as it came
MintContractAddress_NoDefault(req) == req.contractAddress

\* contract address "pending" when none is supplied
MintContractAddress(req) ==
    IF req.contractAddress = "" THEN "pending" ELSE req.contractAddress

\* the models.Asset literal of MintAsset
NewAsset(req, now, totalSupply, expectedYield, pricePerRWA) ==
    [id |-> AssetID(Unix(now)),
     name |-> req.name,
     symbol |-> req.symbol,
     type |-> "Real Estate",
     institution |-> req.institutionName,
     institutionAddress |-> req.institutionAddress,
     description |-> req.description,
     totalSupply |-> totalSupply,
     stakedAmount |-> 0,
     priceUsd |-> pricePerRWA,
     annualYield |-> expectedYield,
     createdAt |-> ZeroTime,
     updatedAt |-> ZeroTime,
     blockchain |-> "Lisk",
     contractAddress |-> MintContractAddress(req),
     txHash |-> req.txHash,
     documentsURI |-> req.documentsURI,
     imageURI |-> req.imageURI,
     documents |-> NilSlice,
     topStakers |-> NilSlice]

\* MintAsset: POST /api/assets/mint
MintAsset(tbl, now, req) ==
    LET ts == ParseInt(req.totalSupply)
        ey == ParseFloat(req.expectedYield)
        pr == MintPrice(req)
        c  == Create(tbl, NewAsset(req, now, ts.val, ey.val, pr.val), now)
    IN
    IF ~BindMint(req)
    THEN [table |-> tbl, resp |-> ErrorResponse("mint", 400, "Invalid request data")]
    ELSE IF ts.err
    THEN [table |-> tbl, resp |-> ErrorResponse("mint", 400, "Invalid total supply")]
    ELSE IF ey.err
    THEN [table |-> tbl, resp |-> ErrorResponse("mint", 400, "Invalid expected yield")]
    ELSE IF pr.err
    THEN [table |-> tbl, resp |-> ErrorResponse("mint", 400, "Invalid price per RWA")]
    ELSE IF c.err
    THEN [table |-> tbl, resp |-> ErrorResponse("mint", 500, "Failed to save asset")]
    ELSE [table |-> c.table,
          resp |-> SuccessResponse("mint", 201, "Asset minted successfully",
                      [kind |-> "mint", id |-> c.asset.id,
                       asset |-> ToAssetResponse(c.asset)])]

\* the loop of GetAllAssets: appends one view per fetched asset to a nil slice
RECURSIVE AppendResponses(_, _)
AppendResponses(sl, assets) ==
    IF Len(assets) = 0 THEN sl
    ELSE AppendResponses(GoAppend(sl, ToAssetResponse(assets[1])), Tail(assets))

\* GetAllAssets: GET /api/assets, given the rows in the order the query
\* returned them
GetAllAssets(rows) ==
    LET assets == [i \in 1..Len(rows) |-> AfterFind(FromRow(rows[i]))]
        assetResponses == AppendResponses(NilSlice, assets)
    IN SuccessResponse("list", 200, "Assets fetched successfully",
          [kind |-> "list", assets |-> assetResponses,
           total |-> Len(assetResponses.items)])

\* variant: a failed lookup is answered as a success without data
GetAssetByID_NullSuccess(tbl, id) ==
    LET f == First(tbl, id) IN
    IF f.err
    THEN SuccessResponse("get", 200, "Asset fetched successfully", Null)
    ELSE SuccessResponse("get", 200, "Asset fetched successfully",
            [kind |-> "asset", view |-> ToAssetResponse(f.asset)])

\* GetAssetByID: GET /api/assets/:id
GetAssetByID(tbl, id) ==
    LET f == First(tbl, id) IN
    IF f.err
    THEN ErrorResponse("get", 404, "Asset not found")
    ELSE SuccessResponse("get", 200, "Asset fetched successfully",
            [kind |-> "asset", view |-> ToAssetResponse(f.asset)])

\* c.BindJSON(&req) for UpdateContractRequest: contractAddress is required
BindContract(req) == req.contractAddress # ""

\* variant: the transaction hash is overwritten even when none is supplied
ApplyContract_AlwaysHash(a, req, now) ==
    [a EXCEPT !.contractAddress = req.contractAddress,
              !.txHash = req.txHash,
              !.updatedAt = TimeAt(now)]

\* the field assignments of UpdateContractAddress on the struct it read
ApplyContract(a, req, now) ==
    [a EXCEPT !.contractAddress = req.contractAddress,
              !.txHash = IF req.txHash # "" THEN req.txHash ELSE @,
              !.updatedAt = TimeAt(now)]

\* UpdateContractAddress from the save on: the struct read earlier is
\* modified and written back
ContractCommit(tbl, now, a, req) ==
    LET sv == Save(tbl, ApplyContract(a, req, now), now) IN
    [table |-> sv.table,
     resp |-> SuccessResponse("contract", 200,
                 "Contract address updated successfully",
                 [kind |-> "asset", view |-> ToAssetResponse(sv.asset)])]

\* UpdateContractAddress: PATCH /api/assets/:id/contract
UpdateContractAddress(tbl, now, id, req) ==
    LET f == First(tbl, id) IN
    IF ~BindContract(req)
    THEN [table |-> tbl, resp |-> ErrorResponse("contract", 400, "Invalid request data")]
    ELSE IF f.err
    THEN [table |-> tbl, resp |-> ErrorResponse("contract", 404, "Asset not found")]
    ELSE ContractCommit(tbl, now, f.asset, req)

\* c.BindJSON(&req) for the staking body: binding:"required" on an int64
\* rejects the zero value (an absent field and 0 alike)
BindStaking(req) == req.stakedAmount # 0

\* variant: the ceiling check is off by one
ExceedsSupply_OffByOne(req, a) == req.stakedAmount > a.totalSupply + 1

\* the supply ceiling check
ExceedsSupply(req, a) == req.stakedAmount > a.totalSupply

\* the field assignments of UpdateAssetStaking on the struct it read
ApplyStaking(a, req, now) ==
    [a EXCEPT !.stakedAmount = req.stakedAmount,
              !.updatedAt = TimeAt(now)]

\* UpdateAssetStaking from the ceiling check on
StakingCommit(tbl, now, a, req) ==
    LET sv == Save(tbl, ApplyStaking(a, req, now), now) IN
    IF ExceedsSupply(req, a)
    THEN [table |-> tbl,
          resp |-> ErrorResponse("staking", 400,
                      "Staked amount cannot exceed total supply")]
    ELSE [table |-> sv.table,
          resp |-> SuccessResponse("staking", 200, "Staking updated successfully",
                      [kind |-> "asset", view |-> ToAssetResponse(sv.asset)])]

\* UpdateAssetStaking: PATCH /api/assets/:id/staking
UpdateAssetStaking(tbl, now, id, req) ==
    LET f == First(tbl, id) IN
    IF ~BindStaking(req)
    THEN [table |-> tbl, resp |-> ErrorResponse("staking", 400, "Invalid request data")]
    ELSE IF f.err
    THEN [table |-> tbl, resp |-> ErrorResponse("staking", 404, "Asset not found")]
    ELSE StakingCommit(tbl, now, f.asset, req)

\* ---- request inputs ----
\* a payload with no price and no contract address
BasePayload ==
    [name |-> "Villa",
     symbol |-> "VLA",
     institutionName |-> "PropTech",
     institutionAddress |-> "Jl. Sudirman 123",
     description |-> "Beachfront villa",
     totalSupply |-> <<"2">>,
     expectedYield |-> <<"8", ".", "5">>,
     pricePerRWA |-> <<>>,
     contractAddress |-> "",
     txHash |-> "0xT0",
     documentsURI |-> "ipfs://docs",
     imageURI |-> "ipfs://img"]

\* the base payload, and payloads that differ from it in one respect
MintRequests ==
    {BasePayload,
     [BasePayload EXCEPT !.name = ""],
     [BasePayload EXCEPT !.totalSupply = <<"0">>,
                         !.pricePerRWA = <<"2">>,
                         !.contractAddress = "0xABC"],
     [BasePayload EXCEPT !.totalSupply = <<"-", "1">>],
     [BasePayload EXCEPT !.totalSupply = <<"2", ".", "5">>],
     [BasePayload EXCEPT !.totalSupply = <<"x">>],
     [BasePayload EXCEPT !.expectedYield = <<"0">>],
     [BasePayload EXCEPT !.expectedYield = <<"x">>],
     [BasePayload EXCEPT !.pricePerRWA = <<"x">>]}

ContractRequests ==
    {[contractAddress |-> "", txHash |-> "0xT1"],
     [contractAddress |-> "0xABC", txHash |-> ""],
     [contractAddress |-> "0xABC", txHash |-> "0xT1"]}

StakingRequests == [stakedAmount : {-1, 0, 1, 3}]

\* identifiers a request path can carry: every mintable one and an unknown one
RequestIDs == {AssetID(s) : s \in 0..Unix(MaxClock)} \cup {"asset_unknown"}

\* ---- state machine ----
Idle == [pc |-> "idle"]

Init ==
    /\ table = <<>>
    /\ clock = 0
    /\ resp = [op |-> "none", status |-> 0, success |-> TRUE, message |-> "",
               data |-> Null]
    /\ inflight = [contract |-> Idle, staking |-> Idle]

\* the wall clock advances
Tick ==
    /\ clock < MaxClock
    /\ clock' = clock + 1
    /\ UNCHANGED <<table, resp, inflight>>

Mint(req) ==
    LET r == MintAsset(table, clock, req) IN
    /\ table' = r.table
    /\ resp' = r.resp
    /\ UNCHANGED <<clock, inflight>>

List ==
    /\ \E rows \in OrderedByCreatedAtDesc(table) : resp' = GetAllAssets(rows)
    /\ UNCHANGED <<table, clock, inflight>>

Get(id) ==
    /\ resp' = GetAssetByID(table, id)
    /\ UNCHANGED <<table, clock, inflight>>

UpdateContract(id, req) ==
    LET r == UpdateContractAddress(table, clock, id, req) IN
    /\ table' = r.table
    /\ resp' = r.resp
    /\ UNCHANGED <<clock, inflight>>

UpdateStaking(id, req) ==
    LET r == UpdateAssetStaking(table, clock, id, req) IN
    /\ table' = r.table
    /\ resp' = r.resp
    /\ UNCHANGED <<clock, inflight>>

Next ==
    \/ Tick
    \/ \E req \in MintRequests : Mint(req)
    \/ List
    \/ \E id \in RequestIDs : Get(id)
    \/ \E id \in RequestIDs, req \in ContractRequests : UpdateContract(id, req)
    \/ \E id \in RequestIDs, req \in StakingRequests : UpdateStaking(id, req)

Spec == Init /\ [][Next]_vars

\* ---- interleaved PATCH handlers ----
\* Each PATCH handler issues two store calls, First and Save; between them
\* the request holds the struct it read.  A slot of inflight is one request
\* of that kind: idle, found (First returned the struct) or done (responded).

ConcMintRequests == {BasePayload}
ConcContractRequests == {[contractAddress |-> "0xABC", txHash |-> "0xT1"]}
ConcStakingRequests == {[stakedAmount |-> 1], [stakedAmount |-> 3]}

Free(slot) == slot.pc \in {"idle", "done"}
Found(id, req, a) == [pc |-> "found", id |-> id, req |-> req, asset |-> a]
Done(id, req, r) == [pc |-> "done", id |-> id, req |-> req, resp |-> r]

\* UpdateContractAddress up to and including db.First
ContractFind(id, req) ==
    LET f == First(table, id)
        early == UpdateContractAddress(table, clock, id, req).resp
    IN
    /\ Free(inflight.contract)
    /\ IF ~BindContract(req) \/ f.err
       THEN /\ inflight' = [inflight EXCEPT !.contract = Done(id, req, early)]
            /\ resp' = early
       ELSE /\ inflight' = [inflight EXCEPT !.contract = Found(id, req, f.asset)]
            /\ resp' = resp
    /\ UNCHANGED <<table, clock>>

\* UpdateContractAddress from the field assignments to the response
ContractSave ==
    LET slot == inflight.contract
        r == ContractCommit(table, clock, slot.asset, slot.req)
    IN
    /\ slot.pc = "found"
    /\ table' = r.table
    /\ resp' = r.resp
    /\ inflight' = [inflight EXCEPT !.contract = Done(slot.id, slot.req, r.resp)]
    /\ UNCHANGED clock

\* UpdateAssetStaking up to and including db.First
StakingFind(id, req) ==
    LET f == First(table, id)
        early == UpdateAssetStaking(table, clock, id, req).resp
    IN
    /\ Free(inflight.staking)
    /\ IF ~BindStaking(req) \/ f.err
       THEN /\ inflight' = [inflight EXCEPT !.staking = Done(id, req, early)]
            /\ resp' = early
       ELSE /\ inflight' = [inflight EXCEPT !.staking = Found(id, req, f.asset)]
            /\ resp' = resp
    /\ UNCHANGED <<table, clock>>

\* UpdateAssetStaking from the ceiling check to the response
StakingSave ==
    LET slot == inflight.staking
        r == StakingCommit(table, clock, slot.asset, slot.req)
    IN
    /\ slot.pc = "found"
    /\ table' = r.table
    /\ resp' = r.resp
    /\ inflight' = [inflight EXCEPT !.staking = Done(slot.id, slot.req, r.resp)]
    /\ UNCHANGED clock

NextConc ==
    \/ Tick
    \/ \E req \in ConcMintRequests : Mint(req)
    \/ \E id \in RequestIDs, req \in ConcContractRequests : ContractFind(id, req)
    \/ ContractSave
    \/ \E id \in RequestIDs, req \in ConcStakingRequests : StakingFind(id, req)
    \/ StakingSave

SpecConc == Init /\ [][NextConc]_vars

\* ---- properties ----

\* C1: after any sequence of Mint, UpdateContract and UpdateStaking requests
\* every stored record has stakedAmount <= totalSupply.
C1_StakedWithinSupply ==
    \A i \in 1..Len(table) : table[i].stakedAmount <= table[i].totalSupply

\* C2: when an UpdateContract and an UpdateStaking request on the same record
\* have both answered 200, the stored record carries the contract address of
\* the one and the staked amount of the other.
C2_BothUpdatesApplied ==
    LET c == inflight.contract
        k == inflight.staking
    IN (/\ c.pc = "done" /\ c.resp.status = 200
        /\ k.pc = "done" /\ k.resp.status = 200
        /\ c.id = k.id)
       => /\ RowOf(table, c.id).contractAddress = c.req.contractAddress
          /\ RowOf(table, c.id).stakedAmount = k.req.stakedAmount

\* C3: the identifier Mint assigns is never one already in the store, so no
\* Mint fails at the insert because of an identifier collision.
C3_MintNeverCollides ==
    ~(resp.op = "mint" /\ resp.status = 500)

\* C4: an UpdateStaking on an existing record with a requested amount above
\* the record's total supply is answered 400 and leaves the table as it was.
C4_RejectedStakingLeavesRecord ==
    [][\A id \in RequestIDs, req \in StakingRequests :
          (/\ HasID(table, id)
           /\ req.stakedAmount > RowOf(table, id).totalSupply
           /\ resp'.op = "staking"
           /\ UpdateStaking(id, req))
          => (resp'.status = 400 /\ ~resp'.success /\ table' = table)]_vars

\* C4 witness: a staking request was rejected by the supply ceiling
C4_Witness ==
    /\ resp.op = "staking"
    /\ resp.status = 400
    /\ resp.message = "Staked amount cannot exceed total supply"

\* C5: UpdateStaking on an existing record accepts (200, amount stored) every
\* amount with 0 <= amount <= totalSupply, rejects every negative amount, and
\* no stored record ever has a negative staked amount.
C5_AcceptsExactlyValidAmounts ==
    /\ [][\A id \in RequestIDs, req \in StakingRequests :
             (UpdateStaking(id, req) /\ HasID(table, id))
             => /\ (0 <= req.stakedAmount
                    /\ req.stakedAmount <= RowOf(table, id).totalSupply)
                   => (resp'.status = 200
                       /\ RowOf(table', id).stakedAmount = req.stakedAmount)
                /\ req.stakedAmount < 0
                   => (resp'.status = 400 /\ table' = table)]_vars
    /\ [](\A i \in 1..Len(table) : table[i].stakedAmount >= 0)

\* C6: UpdateContract on an existing record with a non-empty address stores
\* that address, stores the supplied transaction hash or keeps the old one
\* when none is supplied, and changes nothing else but the update timestamp.
C6_ContractUpdateFrame ==
    [][\A id \in RequestIDs, req \in ContractRequests :
          (/\ HasID(table, id)
           /\ req.contractAddress # ""
           /\ resp'.op = "contract"
           /\ UpdateContract(id, req))
          => LET i == IndexOf(table, id) IN
             /\ Len(table') = Len(table)
             /\ table'[i].contractAddress = req.contractAddress
             /\ table'[i].txHash =
                   IF req.txHash = "" THEN table[i].txHash ELSE req.txHash
             /\ \A f \in StoredFields \ {"contractAddress", "txHash", "updatedAt"} :
                   table'[i][f] = table[i][f]
             /\ \A j \in 1..Len(table) : j # i => table'[j] = table[j]]_vars

\* C6 witness: a contract update without a hash answered 200 on a record
\* whose hash came from its mint
C6_Witness ==
    /\ resp.op = "contract"
    /\ resp.status = 200
    /\ resp.data.view.asset.txHash = "0xT0"

\* C7: Get by ID answers 404 with success false and no data for an unknown
\* identifier, 200 with the view of exactly the stored record for a known
\* one, and leaves the table as it was.
C7_GetByID ==
    [][\A id \in RequestIDs :
          (resp'.op = "get" /\ Get(id))
          => /\ table' = table
             /\ IF HasID(table, id)
                THEN /\ resp'.status = 200 /\ resp'.success
                     /\ resp'.data.kind = "asset"
                     /\ ToRow(resp'.data.view.asset) = RowOf(table, id)
                ELSE /\ resp'.status = 404 /\ ~resp'.success
                     /\ resp'.data = Null]_vars

\* C7 witness: a Get on a non-empty store was answered 404
C7_Witness ==
    /\ resp.op = "get"
    /\ resp.status = 404
    /\ Len(table) > 0

\* C8: List answers success with one view per stored record, newest first,
\* total equal to the number of records, and assets a list (never null),
\* also on an empty store.
C8_ListAll ==
    resp.op = "list"
    => /\ resp.success /\ resp.status = 200
       /\ resp.data.total = Len(table)
       /\ ~resp.data.assets.isNil
       /\ Len(resp.data.assets.items) = Len(table)
       /\ \A i \in 1..Len(table) :
             \E j \in 1..Len(table) :
                ToRow(resp.data.assets.items[j].asset) = table[i]
       /\ \A i, j \in 1..Len(resp.data.assets.items) :
             i < j => resp.data.assets.items[i].asset.createdAt.t
                        >= resp.data.assets.items[j].asset.createdAt.t

\* text that is not a number in any notation: it has a character that is
\* neither a digit, a sign nor a point
NotNumeric(s) == \E i \in 1..Len(s) : ~IsDigit(s[i]) /\ s[i] \notin {"+", "-", "."}

C10_ProgressInRange ==
    \A i \in 1..Len(table) :
       LET p == ToAssetResponse(AfterFind(FromRow(table[i]))).stakingProgress IN
       table[i].stakedAmount <= table[i].totalSupply
       => /\ 0 <= p.num
          /\ p.num <= 100 * p.den
          /\ table[i].totalSupply = 0 => p.num = 0

\* the views a response carries
ViewsOf(r) ==
    IF ~r.success THEN {}
    ELSE IF r.data.kind = "mint" THEN {r.data.asset}
    ELSE IF r.data.kind = "asset" THEN {r.data.view}
    ELSE IF r.data.kind = "list"
    THEN {r.data.assets.items[i] : i \in 1..Len(r.data.assets.items)}
    ELSE {}

\* the amounts of a top-stakers list, in order
StakerAmounts(v) ==
    [i \in 1..Len(v.asset.topStakers.items) |-> v.asset.topStakers.items[i].amount]

\* C11: in every view returned by Mint, Get by ID, List, UpdateContract and
\* UpdateStaking the top stakers agree with the view's own staked amount:
\* three entries of 40%, 35% and 25% of it when it is positive, no entry
\* when it is 0.
C11_TopStakersMatchView ==
    \A v \in ViewsOf(resp) :
       LET n == v.asset.stakedAmount IN
       /\ n > 0 => StakerAmounts(v) =
                      <<Norm(n * 40, 2), Norm(n * 35, 2), Norm(n * 25, 2)>>
       /\ n = 0 => Len(v.asset.topStakers.items) = 0

\* the columns the two PATCH handlers may change
MutableFields == {"contractAddress", "txHash", "stakedAmount", "updatedAt"}

\* C12: under any interleaving no record is ever removed; the number of
\* records grows only by a Mint answered 201, and then by exactly one; no
\* column of an existing record other than contract address, transaction
\* hash, staked amount and update timestamp ever changes, and a record
\* changes only in a step that answers an UpdateContract or UpdateStaking
\* request with 200.
C12_RecordsPersist ==
    [][/\ Len(table') >= Len(table)
       /\ Len(table') # Len(table)
          => /\ Len(table') = Len(table) + 1
             /\ resp'.op = "mint" /\ resp'.status = 201
             /\ table'[Len(table')].id = resp'.data.id
       /\ \A i \in 1..Len(table) :
             /\ \A f \in StoredFields \ MutableFields : table'[i][f] = table[i][f]
             /\ table'[i] # table[i]
                => (resp'.op \in {"contract", "staking"} /\ resp'.status = 200)]_vars

\* C12 witness: two records exist and the older one has had both its staked
\* amount and its contract address updated
C12_Witness ==
    /\ Len(table) = 2
    /\ table[1].stakedAmount = 1
    /\ table[1].contractAddress = "0xABC"
    /\ table[1].updatedAt # table[1].createdAt
====
